---------------------------- MODULE Spec2Model ----------------------------
(***************************************************************************)
(* Resource-management modules of lib/ansible/modules/cloud/amazon:        *)
(* aws_acm_pca, aws_neptune_instance, rekognition_stream_processor,        *)
(* redshift_cluster, aws_storage_gateway, snowball_address, snowball_job.  *)
(*                                                                         *)
(* One invocation of one module is a sequential run of main(): every       *)
(* provider call is one step whose outcome (returns / raises a provider    *)
(* exception) is chosen by the provider.  A Python dict with string keys   *)
(* is a TLA+ record, None is the string "None".                            *)
(***************************************************************************)
EXTENDS Integers, Sequences, FiniteSets, TLC

VARIABLES
    mod,          \* the module that is invoked
    check_mode,   \* module.check_mode
    botocore_ok,  \* module.botocore_at_least('1.10.30') (aws_acm_pca only)
    opts,         \* module.params: the declared options
    remote,       \* what the provider holds: a list of resource dicts
    fixture,      \* what the provider held when this invocation started
    deleting,     \* Arns whose deletion the provider has accepted, not yet completed
    pc,           \* position of main()
    status,       \* the existence check's return value
    result,       \* the result dict of main()
    calls,        \* provider calls issued by this invocation, in order
    handlers,     \* handlers of the module entered by this invocation, in order
    outcome,      \* "none", "exit" (exit_json), "fail" (fail_json), "crash" (uncaught error)
    exit_args,    \* keyword arguments of the exit_json call
    found,        \* what the existence check concluded: "unchecked", "found", "absent"
    run,          \* number of the invocation
    history       \* outcomes of the earlier invocations

vars == <<mod, check_mode, botocore_ok, opts, remote, fixture, deleting, pc, status, found, result,
          calls, handlers, outcome, exit_args, run, history>>

-----------------------------------------------------------------------------
(* Bounds *)
MaxRemote == 2      \* resources the provider lists before the first invocation
MaxRuns == 2        \* successive invocations with the same declared options

None == "None"
Names == {"n1", "n2"}
DeclaredName == "n1"
NoDict == [x \in {} |-> x]
Dict1(k, v) == [x \in {k} |-> v]
\* d[k] = v as Python's assignment to a dict entry
Assign(d, k, v) == Dict1(k, v) @@ d

RECURSIVE SeqsUpTo(_, _)
SeqsUpTo(S, n) == IF n = 0 THEN {<<>>}
                  ELSE LET shorter == SeqsUpTo(S, n - 1)
                       IN  shorter \cup {Append(s, e) : s \in {t \in shorter : Len(t) = n - 1}, e \in S}

Max(S) == CHOOSE x \in S : \A y \in S : y <= x

Last(s) == s[Len(s)]

\* a provider call as this invocation issued it
\* ret: "ok", the exception class the call raised, or "not_found" for the
\* provider's resource-not-found fault
Call(api, kind, args, ret) == [api |-> api, kind |-> kind, args |-> args, ret |-> ret]
Raised == {"ClientError", "BotoCoreError"}
Rets == {"ok"} \cup Raised
Mutating == {"create", "update", "delete", "tag", "storage"}
CallsOfKind(K) == SelectSeq(calls, LAMBDA c : c.kind \in K)
CallsOfApi(a) == SelectSeq(calls, LAMBDA c : c.api = a)

\* the Arn the provider gives to a resource created by invocation r
Arn(i) == "arn:" \o ToString(i)
NewArn(r) == "arn:new" \o ToString(r)

\* the key of a resource dict by which the module's delete request names the resource
IdKey(m) ==
    CASE m = "pca" -> "Arn"
      [] m = "neptune" -> "DBInstanceIdentifier"
      [] m = "rekog" -> "Name"
      [] m = "redshift" -> "ClusterIdentifier"
      [] m = "sgw" -> "TapeARN"
      [] m = "snow_addr" -> "AddressId"
      [] m = "snow_job" -> "JobId"

\* the provider removes a resource once its deletion has completed
Settled(rem, gone, key) == SelectSeq(rem, LAMBDA e : e[key] \notin gone)

-----------------------------------------------------------------------------
(* Ends of an invocation: AnsibleModule.exit_json / fail_json raise SystemExit *)
exit_json(args) ==
    /\ outcome' = "exit"
    /\ exit_args' = args
    /\ pc' = "done"

fail_json ==
    /\ outcome' = "fail"
    /\ exit_args' = NoDict
    /\ pc' = "done"

\* an exception no handler of the module catches ends the process without a result
uncaught(err) ==
    /\ outcome' = "crash"
    /\ exit_args' = Dict1("error", err)
    /\ pc' = "done"

-----------------------------------------------------------------------------
(* The shallow diff of update_pca, update_instance and update_processor *)
common_keys(params, current) ==
    DOMAIN params \ (DOMAIN params \ DOMAIN current)

\* the comparison turned round: a shared key is flagged when its values are equal
param_changed_equal(params, current) ==
    {params[key] = current[key] : key \in common_keys(params, current)}

param_changed(params, current) ==
    {params[key] # current[key] : key \in common_keys(params, current)}

\* `if param_changed:` in place of `if any(param_changed):` - a list that is not empty is true
any_nonempty(bools) == bools # {}

any(bools) == TRUE \in bools

-----------------------------------------------------------------------------
(* aws_acm_pca *)

KeyAlgorithms == {"RSA_2048", "RSA_4096"}

pca_options ==
    [state : {"present", "absent"},
     common_name : {DeclaredName},
     key_algorithm : KeyAlgorithms,
     signing_algorithm : {"SHA256WITHRSA"},
     revocation_enabled : {None, "true", "false"}]    \* None: revocation_configuration not given

\* the request dict with the key algorithm of the documentation's example in
\* place of the declared one
pca_params_fixed_key(o) ==
    [CertificateAuthorityConfiguration |->
        [KeyAlgorithm |-> "RSA_2048",
         SigningAlgorithm |-> o.signing_algorithm,
         Subject |-> [CommonName |-> o.common_name]],
     CertificateAuthorityType |-> "SUBORDINATE"]
    @@ (IF o.revocation_enabled # None
        THEN Dict1("RevocationConfiguration",
                   [CrlConfiguration |-> [Enabled |-> o.revocation_enabled]])
        ELSE NoDict)

\* main(): the request dict built from the declared options
pca_params(o) ==
    [CertificateAuthorityConfiguration |->
        [KeyAlgorithm |-> o.key_algorithm,
         SigningAlgorithm |-> o.signing_algorithm,
         Subject |-> [CommonName |-> o.common_name]],
     CertificateAuthorityType |-> "SUBORDINATE"]
    @@ (IF o.revocation_enabled # None
        THEN Dict1("RevocationConfiguration",
                   [CrlConfiguration |-> [Enabled |-> o.revocation_enabled]])
        ELSE NoDict)

\* a certificate authority as list_certificate_authorities returns it
pca_entry(arn, cn, ka, rev) ==
    [Arn |-> arn,
     CertificateAuthorityConfiguration |->
        [KeyAlgorithm |-> ka, SigningAlgorithm |-> "SHA256WITHRSA",
         Subject |-> [CommonName |-> cn]],
     Type |-> "SUBORDINATE",
     Status |-> "ACTIVE"]
    @@ (IF rev # None
        THEN Dict1("RevocationConfiguration", [CrlConfiguration |-> [Enabled |-> rev]])
        ELSE NoDict)

\* authorities with another common name never reach the diff: one shape is enough
pca_shapes ==
    {<<DeclaredName, ka, rev>> : ka \in KeyAlgorithms, rev \in {None, "true"}}
    \cup {<<"n2", "RSA_2048", None>>}

pca_remotes ==
    {[i \in DOMAIN sh |-> pca_entry(Arn(i), sh[i][1], sh[i][2], sh[i][3])] :
        sh \in SeqsUpTo(pca_shapes, MaxRemote)}

\* the loop of pca_exists over the listing: the last authority with the common name
pca_exists_result(listing, o) ==
    LET hits == {i \in DOMAIN listing :
                    o.common_name =
                        listing[i].CertificateAuthorityConfiguration.Subject.CommonName}
    IN  IF hits = {}
        THEN [current_config |-> "", exists |-> FALSE]
        ELSE [current_config |-> listing[Max(hits)], exists |-> TRUE]

\* what the provider holds after create_certificate_authority(**params) returned
pca_created(rem, params, arn) ==
    Append(rem,
           [Arn |-> arn,
            CertificateAuthorityConfiguration |-> params.CertificateAuthorityConfiguration,
            Type |-> params.CertificateAuthorityType,
            Status |-> "ACTIVE"]
           @@ (IF "RevocationConfiguration" \in DOMAIN params
               THEN Dict1("RevocationConfiguration", params.RevocationConfiguration)
               ELSE NoDict))

\* what the provider holds after an update request for authority arn took effect
Updated(rem, params, arn, ArnKey) ==
    [i \in DOMAIN rem |->
        IF rem[i][ArnKey] = arn
        THEN [k \in DOMAIN rem[i] |->
                 IF k \in DOMAIN params THEN params[k] ELSE rem[i][k]]
        ELSE rem[i]]

pca_main ==
    /\ mod = "pca" /\ pc = "start"
    /\ IF ~botocore_ok
       THEN fail_json
       ELSE pc' = "exists" /\ UNCHANGED <<outcome, exit_args>>
    /\ UNCHANGED <<mod, fixture, check_mode, botocore_ok, opts, remote, deleting, status, found, result,
                   calls, handlers, run, history>>

pca_exists ==
    /\ mod = "pca" /\ pc = "exists"
    /\ handlers' = Append(handlers, "exists")
    /\ IF check_mode /\ opts.state = "absent"
       THEN /\ status' = [exists |-> FALSE]
            /\ found' = "absent"
            /\ pc' = "branch"
            /\ UNCHANGED <<calls, outcome, exit_args>>
       ELSE \E ret \in Rets :
            /\ calls' = Append(calls, Call("list_certificate_authorities", "read", NoDict, ret))
            /\ IF ret = "ok"
               THEN /\ status' = pca_exists_result(remote, opts)
                    /\ found' = (IF pca_exists_result(remote, opts).exists THEN "found" ELSE "absent")
                    /\ pc' = "branch"
                    /\ UNCHANGED <<outcome, exit_args>>
               ELSE fail_json /\ UNCHANGED <<status, found>>
    /\ UNCHANGED <<mod, fixture, check_mode, botocore_ok, opts, remote, deleting, result, run, history>>

pca_create ==
    /\ mod = "pca" /\ pc = "branch"
    /\ opts.state = "present" /\ ~status.exists
    /\ handlers' = Append(handlers, "create")
    /\ IF check_mode
       THEN exit_json([changed |-> TRUE]) /\ UNCHANGED <<calls, remote>>
       ELSE \E ret \in Rets :
            /\ calls' = Append(calls, Call("create_certificate_authority", "create",
                                           pca_params(opts), ret))
            /\ IF ret = "ok"
               THEN /\ remote' = pca_created(remote, pca_params(opts), NewArn(run))
                    /\ pc' = "create_wait"
                    /\ UNCHANGED <<outcome, exit_args>>
               ELSE fail_json /\ UNCHANGED remote
    /\ UNCHANGED <<mod, fixture, check_mode, botocore_ok, opts, deleting, status, found, result, run, history>>

\* create_pca with the waiter's exception swallowed
pca_create_wait_swallowed ==
    /\ mod = "pca" /\ pc = "create_wait"
    /\ \E ret \in Rets :
        /\ calls' = Append(calls, Call("wait_pca_available", "wait",
                                       [CertificateAuthorityArn |-> NewArn(run)], ret))
        /\ result' = [pca_arn |-> NewArn(run), changed |-> TRUE]
        /\ pc' = "exit"
        /\ UNCHANGED <<outcome, exit_args>>
    /\ UNCHANGED <<mod, fixture, check_mode, botocore_ok, opts, remote, deleting, status, found, handlers,
                   run, history>>

pca_create_wait ==
    /\ mod = "pca" /\ pc = "create_wait"
    /\ \E ret \in Rets :
        /\ calls' = Append(calls, Call("wait_pca_available", "wait",
                                       [CertificateAuthorityArn |-> NewArn(run)], ret))
        /\ IF ret = "ok"
           THEN /\ result' = [pca_arn |-> NewArn(run), changed |-> TRUE]
                /\ pc' = "exit"
                /\ UNCHANGED <<outcome, exit_args>>
           ELSE fail_json /\ UNCHANGED result
    /\ UNCHANGED <<mod, fixture, check_mode, botocore_ok, opts, remote, deleting, status, found, handlers,
                   run, history>>

pca_update ==
    /\ mod = "pca" /\ pc = "branch"
    /\ opts.state = "present" /\ status.exists
    /\ handlers' = Append(handlers, "update")
    /\ IF check_mode
       THEN exit_json([changed |-> TRUE]) /\ UNCHANGED <<calls, remote, result>>
       ELSE IF any(param_changed(pca_params(opts), status.current_config))
       THEN \E ret \in Rets :
            /\ calls' = Append(calls, Call("update_certificate_authority", "update",
                                           pca_params(opts), ret))
            /\ IF ret = "ok"
               THEN /\ remote' = Updated(remote, pca_params(opts),
                                         status.current_config.Arn, "Arn")
                    /\ pc' = "update_wait"
                    /\ UNCHANGED <<outcome, exit_args, result>>
               ELSE fail_json /\ UNCHANGED <<remote, result>>
       ELSE /\ result' = [pca_arn |-> status.current_config.Arn, changed |-> FALSE]
            /\ pc' = "exit"
            /\ UNCHANGED <<calls, remote, outcome, exit_args>>
    /\ UNCHANGED <<mod, fixture, check_mode, botocore_ok, opts, deleting, status, found, run, history>>

pca_update_wait ==
    /\ mod = "pca" /\ pc = "update_wait"
    /\ \E ret \in Rets :
        /\ calls' = Append(calls, Call("wait_pca_available", "wait",
                                       [CertificateAuthorityArn |-> status.current_config.Arn], ret))
        /\ IF ret = "ok"
           THEN /\ result' = [pca_arn |-> status.current_config.Arn, changed |-> TRUE]
                /\ pc' = "exit"
                /\ UNCHANGED <<outcome, exit_args>>
           ELSE fail_json /\ UNCHANGED result
    /\ UNCHANGED <<mod, fixture, check_mode, botocore_ok, opts, remote, deleting, status, found, handlers,
                   run, history>>

pca_delete ==
    /\ mod = "pca" /\ pc = "branch"
    /\ opts.state = "absent" /\ status.exists
    /\ handlers' = Append(handlers, "delete")
    /\ IF check_mode
       THEN exit_json([changed |-> TRUE]) /\ UNCHANGED <<calls, deleting>>
       ELSE \E ret \in Rets :
            /\ calls' = Append(calls, Call("delete_certificate_authority", "delete",
                                           [CertificateAuthorityArn |-> status.current_config.Arn], ret))
            /\ IF ret = "ok"
               THEN /\ deleting' = deleting \cup {status.current_config.Arn}
                    /\ pc' = "delete_wait"
                    /\ UNCHANGED <<outcome, exit_args>>
               ELSE fail_json /\ UNCHANGED deleting
    /\ UNCHANGED <<mod, fixture, check_mode, botocore_ok, opts, remote, status, found, result, run, history>>

pca_delete_wait ==
    /\ mod = "pca" /\ pc = "delete_wait"
    /\ \E ret \in Rets :
        /\ calls' = Append(calls, Call("wait_pca_deleted", "wait",
                                       [CertificateAuthorityArn |-> status.current_config.Arn], ret))
        /\ IF ret = "ok"
           THEN /\ remote' = Settled(remote, deleting, IdKey(mod))
                /\ deleting' = {}
                /\ result' = [pca_arn |-> "", changed |-> TRUE]
                /\ pc' = "exit"
                /\ UNCHANGED <<outcome, exit_args>>
           ELSE fail_json /\ UNCHANGED <<remote, deleting, result>>
    /\ UNCHANGED <<mod, fixture, check_mode, botocore_ok, opts, status, found, handlers, run, history>>

\* main(), last line; reached directly when state is absent and nothing was found
pca_main_exit ==
    /\ mod = "pca"
    /\ \/ pc = "exit"
       \/ pc = "branch" /\ opts.state = "absent" /\ ~status.exists
    /\ exit_json([changed |-> result.changed, pca_arn |-> result.pca_arn])
    /\ UNCHANGED <<mod, fixture, check_mode, botocore_ok, opts, remote, deleting, status, found, result,
                   calls, handlers, run, history>>

-----------------------------------------------------------------------------
(* aws_neptune_instance *)

InstanceClasses == {"db.r4.large", "db.r4.xlarge"}

\* the options delete_instance reads vary with state absent, the others with present
neptune_options ==
    {o \in [state : {"present", "absent"},
            name : {DeclaredName},
            instance_class : InstanceClasses,
            db_engine : {"neptune"},
            multi_az : BOOLEAN,
            monitoring_interval : {0, 60},
            auto_minor_version_upgrade : {TRUE},
            skip_final_snapshot : BOOLEAN,
            final_snapshot_id : {None, "final"}] :
        /\ o.state = "present" => ~o.skip_final_snapshot /\ o.final_snapshot_id = None
        /\ o.state = "absent" => /\ o.instance_class = "db.r4.large" /\ ~o.multi_az
                                 /\ o.monitoring_interval = 0}

\* main() with `is not None` tests: a false or zero option is sent as declared
neptune_params_sending_falsy(o) ==
    [DBInstanceIdentifier |-> o.name,
     DBInstanceClass |-> o.instance_class,
     Engine |-> o.db_engine,
     MultiAZ |-> o.multi_az,
     AutoMinorVersionUpgrade |-> o.auto_minor_version_upgrade,
     MonitoringInterval |-> o.monitoring_interval]

\* main(): the request dict; an option whose value is falsy is left out
neptune_params(o) ==
    [DBInstanceIdentifier |-> o.name,
     DBInstanceClass |-> o.instance_class,
     Engine |-> o.db_engine]
    @@ (IF o.multi_az THEN Dict1("MultiAZ", o.multi_az) ELSE NoDict)
    @@ (IF o.auto_minor_version_upgrade
        THEN Dict1("AutoMinorVersionUpgrade", o.auto_minor_version_upgrade) ELSE NoDict)
    @@ (IF o.monitoring_interval # 0
        THEN Dict1("MonitoringInterval", o.monitoring_interval) ELSE NoDict)

\* delete_instance: the request of delete_db_instance
neptune_delete_params(o) ==
    [DBInstanceIdentifier |-> o.name]
    @@ (IF o.skip_final_snapshot THEN Dict1("SkipFinalSnapshot", o.skip_final_snapshot)
        ELSE NoDict)
    @@ (IF o.final_snapshot_id # None
        THEN Dict1("FinalDBSnapshotIdentifier", o.final_snapshot_id) ELSE NoDict)

\* a database instance as describe_db_instances returns it
neptune_entry(id, class, multi_az, interval) ==
    [DBInstanceIdentifier |-> id,
     DBInstanceArn |-> "arn:db:" \o id,
     DBInstanceClass |-> class,
     Engine |-> "neptune",
     MultiAZ |-> multi_az,
     MonitoringInterval |-> interval,
     AutoMinorVersionUpgrade |-> TRUE,
     DBInstanceStatus |-> "available"]

\* instance identifiers are unique at the provider
UniqueBy(rem, key) ==
    \A i, j \in DOMAIN rem : i # j => rem[i][key] # rem[j][key]

neptune_remotes ==
    {r \in SeqsUpTo({neptune_entry(DeclaredName, c, m, n) :
                        c \in InstanceClasses, m \in BOOLEAN, n \in {0, 60}}
                    \cup {neptune_entry("n2", "db.r4.large", FALSE, 0)}, MaxRemote) :
        UniqueBy(r, "DBInstanceIdentifier")}

\* response['DBInstances'] of describe_db_instances(DBInstanceIdentifier=id)
Described(rem, key, id) == SelectSeq(rem, LAMBDA e : e[key] = id)

\* what the provider holds after create_db_instance(**params) returned
neptune_created(rem, params) ==
    Append(rem,
           [DBInstanceIdentifier |-> params.DBInstanceIdentifier,
            DBInstanceArn |-> "arn:db:" \o params.DBInstanceIdentifier,
            DBInstanceClass |-> params.DBInstanceClass,
            Engine |-> params.Engine,
            MultiAZ |-> ("MultiAZ" \in DOMAIN params),
            MonitoringInterval |-> (IF "MonitoringInterval" \in DOMAIN params
                                    THEN params.MonitoringInterval ELSE 0),
            AutoMinorVersionUpgrade |-> TRUE,
            DBInstanceStatus |-> "available"])

neptune_main ==
    /\ mod = "neptune" /\ pc = "start"
    /\ pc' = "exists"
    /\ UNCHANGED <<mod, fixture, check_mode, botocore_ok, opts, remote, deleting, status, found, result,
                   calls, handlers, outcome, exit_args, run, history>>

\* instance_exists with every provider exception taken for "no such instance"
instance_exists_absent_on_error ==
    /\ mod = "neptune" /\ pc = "exists"
    /\ handlers' = Append(handlers, "exists")
    /\ IF check_mode /\ opts.state = "absent"
       THEN /\ status' = [exists |-> FALSE]
            /\ found' = "absent"
            /\ pc' = "branch"
            /\ UNCHANGED <<calls, outcome, exit_args>>
       ELSE LET described == Described(remote, "DBInstanceIdentifier",
                                   neptune_params(opts).DBInstanceIdentifier)
                args == [DBInstanceIdentifier |-> neptune_params(opts).DBInstanceIdentifier]
            IN  \E ret \in Rets :
                IF ret = "ok" /\ described # <<>>
                THEN /\ calls' = Append(calls, Call("describe_db_instances", "read", args, "ok"))
                     /\ status' = [current_config |-> described[1], exists |-> TRUE]
                     /\ found' = "found"
                     /\ pc' = "branch"
                     /\ UNCHANGED <<outcome, exit_args>>
                ELSE /\ calls' = Append(calls, Call("describe_db_instances", "read", args,
                                                    IF ret = "ok" THEN "not_found" ELSE ret))
                     /\ status' = [exists |-> FALSE]
                     /\ found' = "absent"
                     /\ pc' = "branch"
                     /\ UNCHANGED <<outcome, exit_args>>
    /\ UNCHANGED <<mod, fixture, check_mode, botocore_ok, opts, remote, deleting, result, run, history>>

instance_exists ==
    /\ mod = "neptune" /\ pc = "exists"
    /\ handlers' = Append(handlers, "exists")
    /\ IF check_mode /\ opts.state = "absent"
       THEN /\ status' = [exists |-> FALSE]
            /\ found' = "absent"
            /\ pc' = "branch"
            /\ UNCHANGED <<calls, outcome, exit_args>>
       ELSE LET described == Described(remote, "DBInstanceIdentifier",
                                   neptune_params(opts).DBInstanceIdentifier)
                args == [DBInstanceIdentifier |-> neptune_params(opts).DBInstanceIdentifier]
            IN  \E ret \in Rets :
                IF ret = "ok" /\ described # <<>>
                THEN /\ calls' = Append(calls, Call("describe_db_instances", "read", args, "ok"))
                     /\ status' = [current_config |-> described[1], exists |-> TRUE]
                     /\ found' = "found"
                     /\ pc' = "branch"
                     /\ UNCHANGED <<outcome, exit_args>>
                ELSE IF ret = "ok"
                THEN /\ calls' = Append(calls, Call("describe_db_instances", "read", args,
                                                    "not_found"))
                     /\ status' = [exists |-> FALSE]
                     /\ found' = "absent"
                     /\ pc' = "branch"
                     /\ UNCHANGED <<outcome, exit_args>>
                ELSE /\ calls' = Append(calls, Call("describe_db_instances", "read", args, ret))
                     /\ fail_json
                     /\ UNCHANGED <<status, found>>
    /\ UNCHANGED <<mod, fixture, check_mode, botocore_ok, opts, remote, deleting, result, run, history>>

create_instance ==
    /\ mod = "neptune" /\ pc = "branch"
    /\ opts.state = "present" /\ ~status.exists
    /\ handlers' = Append(handlers, "create")
    /\ IF check_mode
       THEN exit_json([changed |-> TRUE]) /\ UNCHANGED <<calls, remote>>
       ELSE \E ret \in Rets :
            /\ calls' = Append(calls, Call("create_db_instance", "create",
                                           neptune_params(opts), ret))
            /\ IF ret = "ok"
               THEN /\ remote' = neptune_created(remote, neptune_params(opts))
                    /\ pc' = "create_wait"
                    /\ UNCHANGED <<outcome, exit_args>>
               ELSE fail_json /\ UNCHANGED remote
    /\ UNCHANGED <<mod, fixture, check_mode, botocore_ok, opts, deleting, status, found, result, run, history>>

\* create_instance with a rollback: when the waiter raises, the instance is deleted
create_instance_wait_rollback ==
    /\ mod = "neptune" /\ pc = "create_wait"
    /\ \E ret \in Rets :
        LET waited == Call("wait_db_instance_available", "wait",
                           [DBInstanceIdentifier |->
                                neptune_params(opts).DBInstanceIdentifier], ret)
        IN  IF ret = "ok"
            THEN /\ calls' = Append(calls, waited)
                 /\ result' = [db_instance_arn |-> Last(remote).DBInstanceArn, changed |-> TRUE]
                 /\ pc' = "exit"
                 /\ UNCHANGED <<outcome, exit_args>>
            ELSE /\ calls' = calls \o <<waited,
                                        Call("delete_db_instance", "delete",
                                             [DBInstanceIdentifier |-> opts.name], "ok")>>
                 /\ fail_json
                 /\ UNCHANGED result
    /\ UNCHANGED <<mod, fixture, check_mode, botocore_ok, opts, remote, deleting, status, found, handlers,
                   run, history>>

create_instance_wait ==
    /\ mod = "neptune" /\ pc = "create_wait"
    /\ \E ret \in Rets :
        /\ calls' = Append(calls, Call("wait_db_instance_available", "wait",
                                       [DBInstanceIdentifier |->
                                            neptune_params(opts).DBInstanceIdentifier], ret))
        /\ IF ret = "ok"
           THEN /\ result' = [db_instance_arn |-> Last(remote).DBInstanceArn, changed |-> TRUE]
                /\ pc' = "exit"
                /\ UNCHANGED <<outcome, exit_args>>
           ELSE fail_json /\ UNCHANGED result
    /\ UNCHANGED <<mod, fixture, check_mode, botocore_ok, opts, remote, deleting, status, found, handlers,
                   run, history>>

update_instance ==
    /\ mod = "neptune" /\ pc = "branch"
    /\ opts.state = "present" /\ status.exists
    /\ handlers' = Append(handlers, "update")
    /\ IF check_mode
       THEN exit_json([changed |-> TRUE]) /\ UNCHANGED <<calls, remote, result>>
       ELSE IF any(param_changed(neptune_params(opts), status.current_config))
       THEN \E ret \in Rets :
            /\ calls' = Append(calls, Call("modify_db_instance", "update",
                                           neptune_params(opts), ret))
            /\ IF ret = "ok"
               THEN /\ remote' = Updated(remote, neptune_params(opts),
                                         status.current_config.DBInstanceIdentifier,
                                         "DBInstanceIdentifier")
                    /\ pc' = "update_wait"
                    /\ UNCHANGED <<outcome, exit_args, result>>
               ELSE fail_json /\ UNCHANGED <<remote, result>>
       ELSE /\ result' = [db_instance_arn |-> status.current_config.DBInstanceArn,
                          changed |-> FALSE]
            /\ pc' = "exit"
            /\ UNCHANGED <<calls, remote, outcome, exit_args>>
    /\ UNCHANGED <<mod, fixture, check_mode, botocore_ok, opts, deleting, status, found, run, history>>

update_instance_wait ==
    /\ mod = "neptune" /\ pc = "update_wait"
    /\ \E ret \in Rets :
        /\ calls' = Append(calls, Call("wait_db_instance_available", "wait",
                                       [DBInstanceIdentifier |->
                                            neptune_params(opts).DBInstanceIdentifier], ret))
        /\ IF ret = "ok"
           THEN /\ result' = [db_instance_arn |-> status.current_config.DBInstanceArn,
                              changed |-> TRUE]
                /\ pc' = "exit"
                /\ UNCHANGED <<outcome, exit_args>>
           ELSE fail_json /\ UNCHANGED result
    /\ UNCHANGED <<mod, fixture, check_mode, botocore_ok, opts, remote, deleting, status, found, handlers,
                   run, history>>

delete_instance ==
    /\ mod = "neptune" /\ pc = "branch"
    /\ opts.state = "absent" /\ status.exists
    /\ handlers' = Append(handlers, "delete")
    /\ IF check_mode
       THEN exit_json([changed |-> TRUE]) /\ UNCHANGED <<calls, deleting>>
       ELSE \E ret \in Rets :
            /\ calls' = Append(calls, Call("delete_db_instance", "delete",
                                           neptune_delete_params(opts), ret))
            /\ IF ret = "ok"
               THEN /\ deleting' = deleting \cup {opts.name}
                    /\ pc' = "delete_wait"
                    /\ UNCHANGED <<outcome, exit_args>>
               ELSE fail_json /\ UNCHANGED deleting
    /\ UNCHANGED <<mod, fixture, check_mode, botocore_ok, opts, remote, status, found, result, run, history>>

delete_instance_wait ==
    /\ mod = "neptune" /\ pc = "delete_wait"
    /\ \E ret \in Rets :
        /\ calls' = Append(calls, Call("wait_db_instance_deleted", "wait",
                                       [DBInstanceIdentifier |->
                                            neptune_delete_params(opts).DBInstanceIdentifier], ret))
        /\ IF ret = "ok"
           THEN /\ remote' = Settled(remote, deleting, IdKey(mod))
                /\ deleting' = {}
                /\ result' = [db_instance_arn |-> "", changed |-> TRUE]
                /\ pc' = "exit"
                /\ UNCHANGED <<outcome, exit_args>>
           ELSE fail_json /\ UNCHANGED <<remote, deleting, result>>
    /\ UNCHANGED <<mod, fixture, check_mode, botocore_ok, opts, status, found, handlers, run, history>>

\* main(), last line; reached directly when state is absent and nothing was found
neptune_main_exit ==
    /\ mod = "neptune"
    /\ \/ pc = "exit"
       \/ pc = "branch" /\ opts.state = "absent" /\ ~status.exists
    /\ exit_json([changed |-> result.changed, db_instance_arn |-> result.db_instance_arn])
    /\ UNCHANGED <<mod, fixture, check_mode, botocore_ok, opts, remote, deleting, status, found, result,
                   calls, handlers, run, history>>

-----------------------------------------------------------------------------
(* rekognition_stream_processor *)

Collections == {"col1", "col2"}

rekog_options ==
    [state : {"present", "absent"},
     name : {DeclaredName},
     input_arn : {"arn:kvs"},
     output_arn : {"arn:kds"},
     collection_id : Collections,
     match_threshold : {90},
     iam_role_arn : {"arn:role"}]

\* main(): the request dict of create_stream_processor
rekog_params(o) ==
    [Name |-> o.name,
     Input |-> [KinesisVideoStream |-> [Arn |-> o.input_arn]],
     Output |-> [KinesisDataStream |-> [Arn |-> o.output_arn]],
     Settings |-> [FaceSearch |-> [CollectionId |-> o.collection_id,
                                   FaceMatchThreshold |-> o.match_threshold]],
     RoleArn |-> o.iam_role_arn]

\* a stream processor as describe_stream_processor returns it
rekog_entry(name, collection, st) ==
    [Name |-> name,
     StreamProcessorArn |-> "arn:sp:" \o name,
     Status |-> st,
     Input |-> [KinesisVideoStream |-> [Arn |-> "arn:kvs"]],
     Output |-> [KinesisDataStream |-> [Arn |-> "arn:kds"]],
     Settings |-> [FaceSearch |-> [CollectionId |-> collection, FaceMatchThreshold |-> 90]],
     RoleArn |-> "arn:role"]

ProcessorStatuses == {"STOPPED", "FAILED", "RUNNING"}

rekog_remotes ==
    {r \in SeqsUpTo({rekog_entry(DeclaredName, c, st) : c \in Collections,
                                                       st \in ProcessorStatuses}
                    \cup {rekog_entry("n2", "col1", "STOPPED")}, MaxRemote) :
        UniqueBy(r, "Name")}

\* what the provider holds after create_stream_processor(**params) returned
rekog_created(rem, params) ==
    Append(rem, [Name |-> params.Name,
                 StreamProcessorArn |-> "arn:sp:" \o params.Name,
                 Status |-> "STOPPED",
                 Input |-> params.Input,
                 Output |-> params.Output,
                 Settings |-> params.Settings,
                 RoleArn |-> params.RoleArn])

rekog_main ==
    /\ mod = "rekog" /\ pc = "start"
    /\ pc' = "exists"
    /\ UNCHANGED <<mod, fixture, check_mode, botocore_ok, opts, remote, deleting, status, found, result,
                   calls, handlers, outcome, exit_args, run, history>>

\* processor_exists up to the listing: in check mode it reports changed at once
processor_exists ==
    /\ mod = "rekog" /\ pc = "exists"
    /\ handlers' = Append(handlers, "exists")
    /\ IF check_mode
       THEN exit_json([changed |-> TRUE]) /\ UNCHANGED <<calls, status, found>>
       ELSE \E ret \in Rets :
            /\ calls' = Append(calls, Call("list_stream_processors", "read", NoDict, ret))
            /\ IF ret = "ok"
               THEN /\ IF \E i \in DOMAIN remote : remote[i].Name = opts.name
                       THEN pc' = "describe" /\ UNCHANGED <<status, found>>
                       ELSE pc' = "branch" /\ status' = FALSE
                                           /\ found' = "absent"
                    /\ UNCHANGED <<outcome, exit_args>>
               ELSE fail_json /\ UNCHANGED <<status, found>>
    /\ UNCHANGED <<mod, fixture, check_mode, botocore_ok, opts, remote, deleting, result, run, history>>

\* processor_exists, the describe call for the listed processor
processor_exists_describe ==
    /\ mod = "rekog" /\ pc = "describe"
    /\ \E ret \in Rets :
        /\ calls' = Append(calls, Call("describe_stream_processor", "read",
                                       [Name |-> opts.name], ret))
        /\ IF ret = "ok"
           THEN /\ result' = result @@ Dict1("processor_config",
                                             Described(remote, "Name", opts.name)[1])
                /\ status' = TRUE
                /\ found' = "found"
                /\ pc' = "branch"
                /\ UNCHANGED <<outcome, exit_args>>
           ELSE fail_json /\ UNCHANGED <<result, status, found>>
    /\ UNCHANGED <<mod, fixture, check_mode, botocore_ok, opts, remote, deleting, handlers, run, history>>

create_processor ==
    /\ mod = "rekog" /\ pc = "branch"
    /\ opts.state = "present" /\ ~status
    /\ handlers' = Append(handlers, "create")
    /\ \E ret \in Rets :
        /\ calls' = Append(calls, Call("create_stream_processor", "create",
                                       rekog_params(opts), ret))
        /\ IF ret = "ok"
           THEN /\ remote' = rekog_created(remote, rekog_params(opts))
                /\ result' = [result EXCEPT !.changed = TRUE]
                /\ pc' = "exit"
                /\ UNCHANGED <<outcome, exit_args>>
           ELSE fail_json /\ UNCHANGED <<remote, result>>
    /\ UNCHANGED <<mod, fixture, check_mode, botocore_ok, opts, deleting, status, found, run, history>>

\* the test of update_processor that lets it replace the processor
rekog_replaceable(config) == config.Status = "STOPPED" \/ config.Status = "FAILED"

\* update_processor with stream_delete_waiter defined: the processor is deleted
\* and created again
update_processor_replacing ==
    /\ mod = "rekog" /\ pc = "branch"
    /\ opts.state = "present" /\ status
    /\ handlers' = Append(handlers, "update")
    /\ IF /\ any(param_changed(rekog_params(opts), result.processor_config))
          /\ rekog_replaceable(result.processor_config)
       THEN \E ret, ret2 \in Rets :
            IF ret = "ok"
            THEN /\ calls' = calls \o <<Call("delete_stream_processor", "delete",
                                              [Name |-> opts.name], ret),
                                         Call("create_stream_processor", "create",
                                              rekog_params(opts), ret2)>>
                 /\ IF ret2 = "ok"
                    THEN /\ remote' = rekog_created(Settled(remote, {opts.name}, "Name"),
                                                    rekog_params(opts))
                         /\ result' = [result EXCEPT !.changed = TRUE]
                         /\ pc' = "exit"
                         /\ UNCHANGED <<deleting, outcome, exit_args>>
                    ELSE /\ deleting' = deleting \cup {opts.name}
                         /\ fail_json
                         /\ UNCHANGED <<remote, result>>
            ELSE /\ calls' = Append(calls, Call("delete_stream_processor", "delete",
                                                [Name |-> opts.name], ret))
                 /\ fail_json
                 /\ UNCHANGED <<deleting, remote, result>>
       ELSE /\ pc' = "exit"
            /\ UNCHANGED <<calls, deleting, remote, result, outcome, exit_args>>
    /\ UNCHANGED <<mod, fixture, check_mode, botocore_ok, opts, status, found, run, history>>

\* update_processor: the name stream_delete_waiter is defined nowhere, so the
\* statement after delete_stream_processor raises NameError, which the handler's
\* except clause (BotoCoreError, ClientError) does not catch
update_processor ==
    /\ mod = "rekog" /\ pc = "branch"
    /\ opts.state = "present" /\ status
    /\ handlers' = Append(handlers, "update")
    /\ IF /\ any(param_changed(rekog_params(opts), result.processor_config))
          /\ rekog_replaceable(result.processor_config)
       THEN \E ret \in Rets :
            /\ calls' = Append(calls, Call("delete_stream_processor", "delete",
                                           [Name |-> opts.name], ret))
            /\ IF ret = "ok"
               THEN /\ deleting' = deleting \cup {opts.name}
                    /\ uncaught("NameError")
               ELSE fail_json /\ UNCHANGED deleting
       ELSE /\ pc' = "exit"
            /\ UNCHANGED <<calls, deleting, outcome, exit_args>>
    /\ UNCHANGED <<mod, fixture, check_mode, botocore_ok, opts, remote, status, found, result, run, history>>

delete_processor ==
    /\ mod = "rekog" /\ pc = "branch"
    /\ opts.state = "absent" /\ status
    /\ handlers' = Append(handlers, "delete")
    /\ \E ret \in Rets :
        /\ calls' = Append(calls, Call("delete_stream_processor", "delete",
                                       [Name |-> opts.name], ret))
        /\ IF ret = "ok"
           THEN /\ deleting' = deleting \cup {opts.name}
                /\ result' = [result EXCEPT !.changed = TRUE]
                /\ pc' = "exit"
                /\ UNCHANGED <<outcome, exit_args>>
           ELSE fail_json /\ UNCHANGED <<deleting, result>>
    /\ UNCHANGED <<mod, fixture, check_mode, botocore_ok, opts, remote, status, found, run, history>>

\* main(), last line; reached directly when state is absent and nothing was found
rekog_main_exit ==
    /\ mod = "rekog"
    /\ \/ pc = "exit"
       \/ pc = "branch" /\ opts.state = "absent" /\ ~status
    /\ exit_json([changed |-> result.changed])
    /\ UNCHANGED <<mod, fixture, check_mode, botocore_ok, opts, remote, deleting, status, found, result,
                   calls, handlers, run, history>>

-----------------------------------------------------------------------------
(* redshift_cluster *)

NodeTypes == {"dc2.large", "ds2.xlarge"}
NoneInt == -1       \* an int option that is not given (Python None)

\* the options delete_redshift_cluster reads vary with state absent, the others with present
\* every option supplied by the task
redshift_supplied ==
    {o \in [state : {"present", "absent"},
            cluster_identifier : {DeclaredName},
            node_type : NodeTypes,
            username : {"admin"},
            password : {"secret"},
            cluster_type : {"single-node", "multi-node"},
            number_of_nodes : {NoneInt, 2},
            allow_version_upgrade : {TRUE},
            publicly_accessible : BOOLEAN,
            encrypted : {FALSE},
            elastic_ip : {None, "1.2.3.4"},
            enhanced_vpc_routing : BOOLEAN,
            skip_final_cluster_snapshot : BOOLEAN,
            final_cluster_snapshot_identifier : {None, "final"}] :
        /\ o.state = "present" =>
              o.skip_final_cluster_snapshot /\ o.final_cluster_snapshot_identifier = None
        /\ o.state = "absent" =>
              /\ o.node_type = "dc2.large" /\ o.cluster_type = "single-node"
              /\ o.number_of_nodes = NoneInt /\ ~o.publicly_accessible
              /\ o.elastic_ip = None /\ ~o.enhanced_vpc_routing}

\* the arguments of a task: a task that deletes may leave skip_final_cluster_snapshot out
redshift_options ==
    redshift_supplied
    \cup {[k \in DOMAIN o \ {"skip_final_cluster_snapshot"} |-> o[k]] :
            o \in {s \in redshift_supplied : s.state = "absent" /\ s.skip_final_cluster_snapshot}}

\* module.params: an option the task left out has the default of the argument_spec
redshift_params(o) == o @@ [skip_final_cluster_snapshot |-> TRUE]

\* create_redshift_cluster: the request of create_cluster; an option that is None is left out
redshift_create_args(o) ==
    [ClusterIdentifier |-> o.cluster_identifier,
     NodeType |-> o.node_type,
     MasterUsername |-> o.username,
     MasterUserPassword |-> o.password,
     ClusterType |-> o.cluster_type,
     AllowVersionUpgrade |-> o.allow_version_upgrade,
     PubliclyAccessible |-> o.publicly_accessible,
     Encrypted |-> o.encrypted,
     EnhancedVpcRouting |-> o.enhanced_vpc_routing]
    @@ (IF o.number_of_nodes # NoneInt THEN Dict1("NumberOfNodes", o.number_of_nodes)
        ELSE NoDict)
    @@ (IF o.elastic_ip # None THEN Dict1("ElasticIp", o.elastic_ip) ELSE NoDict)

\* delete_redshift_cluster: the request of delete_cluster
redshift_delete_args(o) ==
    [ClusterIdentifier |-> o.cluster_identifier,
     SkipFinalClusterSnapshot |-> o.skip_final_cluster_snapshot]
    @@ (IF o.skip_final_cluster_snapshot = FALSE
        THEN Dict1("FinalClusterSnapshotIdentifier", o.final_cluster_snapshot_identifier)
        ELSE NoDict)

\* modify_redshift_cluster: the four requests of modify_cluster, from the
\* cluster as described on entry (info) and the declared options
vpc_args(info, o) ==
    IF info.EnhancedVpcRouting # o.enhanced_vpc_routing
    THEN Dict1("EnhancedVpcRouting", o.enhanced_vpc_routing) ELSE NoDict

network_args(info, o) ==
    LET a1 == IF info.PubliclyAccessible # o.publicly_accessible
              THEN Assign(NoDict, "ClusterType", o.publicly_accessible) ELSE NoDict
    IN  IF info.ElasticIp # o.elastic_ip THEN Assign(a1, "ElasticIp", o.elastic_ip) ELSE a1

resize_args(info, o) ==
    LET a1 == IF o.cluster_type = "single-node" /\ info.NumberOfNodes > 1
              THEN Assign(NoDict, "ClusterType", o.cluster_type) ELSE NoDict
        a2 == IF o.cluster_type = "multi-node" /\ info.NumberOfNodes # o.number_of_nodes
              THEN Assign(Assign(a1, "ClusterType", o.cluster_type),
                          "NumberOfNodes", o.number_of_nodes)
              ELSE a1
    IN  IF info.NodeType # o.node_type
        THEN Assign(Assign(a2, "ClusterType", o.cluster_type), "NodeType", o.node_type)
        ELSE a2

remaining_args(info, o) ==
    [MasterUserPassword |-> o.password,
     AllowVersionUpgrade |-> o.allow_version_upgrade]

modify_args(stage, info, o) ==
    CASE stage = 1 -> vpc_args(info, o)
      [] stage = 2 -> network_args(info, o)
      [] stage = 3 -> resize_args(info, o)
      [] stage = 4 -> remaining_args(info, o)

ModifyStages == 1..4

\* a cluster as describe_clusters returns it; elastic_ip None: the dict has no key ElasticIp
redshift_entry(id, evr, pa, eip, nodes) ==
    [ClusterIdentifier |-> id,
     NodeType |-> "dc2.large",
     ClusterStatus |-> "available",
     NumberOfNodes |-> nodes,
     PubliclyAccessible |-> pa,
     EnhancedVpcRouting |-> evr]
    @@ (IF eip # None THEN Dict1("ElasticIp", eip) ELSE NoDict)

\* clusters are looked up by identifier: their order in the account is immaterial
redshift_remotes ==
    LET mine == {redshift_entry(DeclaredName, evr, pa, eip, n) :
                    evr \in BOOLEAN, pa \in BOOLEAN, eip \in {None, "1.2.3.4"}, n \in {1, 2}}
        other == redshift_entry("n2", FALSE, FALSE, None, 1)
    IN  {r \in {<<>>, <<other>>} \cup {<<e>> : e \in mine} \cup {<<e, other>> : e \in mine} :
            Len(r) <= MaxRemote}

\* what the provider holds after create_cluster(**args) returned
redshift_created(rem, args) ==
    Append(rem,
           [ClusterIdentifier |-> args.ClusterIdentifier,
            NodeType |-> args.NodeType,
            ClusterStatus |-> "available",
            NumberOfNodes |-> IF "NumberOfNodes" \in DOMAIN args THEN args.NumberOfNodes ELSE 1,
            PubliclyAccessible |-> args.PubliclyAccessible,
            EnhancedVpcRouting |-> args.EnhancedVpcRouting]
           @@ (IF "ElasticIp" \in DOMAIN args THEN Dict1("ElasticIp", args.ElasticIp)
               ELSE NoDict))

get_redshift_cluster ==
    /\ mod = "redshift" /\ pc = "start"
    /\ handlers' = Append(handlers, "exists")
    /\ LET described == Described(remote, "ClusterIdentifier", opts.cluster_identifier)
           args == [ClusterIdentifier |-> opts.cluster_identifier]
       IN  \E ret \in Rets :
           IF ret = "ok"
           THEN /\ calls' = Append(calls, Call("describe_clusters", "read", args,
                                               IF described # <<>> THEN "ok" ELSE "not_found"))
                /\ status' = (IF described # <<>> THEN "found" ELSE "missing")
                /\ found' = (IF described # <<>> THEN "found" ELSE "absent")
                /\ pc' = "branch"
                /\ UNCHANGED <<outcome, exit_args>>
           ELSE /\ calls' = Append(calls, Call("describe_clusters", "read", args, ret))
                /\ fail_json
                /\ UNCHANGED <<status, found>>
    /\ UNCHANGED <<mod, fixture, check_mode, botocore_ok, opts, remote, deleting, result, run, history>>

create_redshift_cluster ==
    /\ mod = "redshift" /\ pc = "branch"
    /\ opts.state = "present" /\ status = "missing"
    /\ handlers' = Append(handlers, "create")
    /\ \E ret \in Rets :
        /\ calls' = Append(calls, Call("create_cluster", "create",
                                       redshift_create_args(opts), ret))
        /\ IF ret = "ok"
           THEN /\ remote' = redshift_created(remote, redshift_create_args(opts))
                /\ pc' = "create_wait"
                /\ UNCHANGED <<outcome, exit_args>>
           ELSE fail_json /\ UNCHANGED remote
    /\ UNCHANGED <<mod, fixture, check_mode, botocore_ok, opts, deleting, status, found, result, run, history>>

create_redshift_cluster_wait ==
    /\ mod = "redshift" /\ pc = "create_wait"
    /\ \E ret \in Rets :
        /\ calls' = Append(calls, Call("wait_cluster_available", "wait",
                                       [ClusterIdentifier |-> opts.cluster_identifier], ret))
        /\ IF ret = "ok"
           THEN pc' = "create_facts" /\ UNCHANGED <<outcome, exit_args>>
           ELSE fail_json
    /\ UNCHANGED <<mod, fixture, check_mode, botocore_ok, opts, remote, deleting, status, found, result,
                   handlers, run, history>>

\* create_redshift_cluster, the describe call for the facts, and main()'s exit_json
create_redshift_cluster_facts ==
    /\ mod = "redshift" /\ pc = "create_facts"
    /\ \E ret \in Rets :
        /\ calls' = Append(calls, Call("describe_clusters", "read",
                                       [ClusterIdentifier |-> opts.cluster_identifier], ret))
        /\ IF ret = "ok"
           THEN exit_json([changed |-> TRUE, task_status |-> "creation_facts"])
           ELSE fail_json
    /\ UNCHANGED <<mod, fixture, check_mode, botocore_ok, opts, remote, deleting, status, found, result,
                   handlers, run, history>>

\* modify_redshift_cluster, the describe call on entry: it is outside every try
modify_redshift_cluster ==
    /\ mod = "redshift" /\ pc = "branch"
    /\ opts.state = "present" /\ status = "found"
    /\ handlers' = Append(handlers, "update")
    /\ \E ret \in Rets :
        /\ calls' = Append(calls, Call("describe_clusters", "read",
                                       [ClusterIdentifier |-> opts.cluster_identifier], ret))
        /\ IF ret = "ok"
           THEN /\ result' = [cluster_info |->
                                 Described(remote, "ClusterIdentifier",
                                           opts.cluster_identifier)[1],
                              stage |-> 1]
                /\ pc' = "modify"
                /\ UNCHANGED <<outcome, exit_args>>
           ELSE uncaught(ret) /\ UNCHANGED result
    /\ UNCHANGED <<mod, fixture, check_mode, botocore_ok, opts, remote, deleting, status, found, run, history>>

\* one of the four modify_cluster requests; the second reads cluster_info['ElasticIp']
modify_redshift_cluster_request ==
    /\ mod = "redshift" /\ pc = "modify"
    /\ IF result.stage = 2 /\ "ElasticIp" \notin DOMAIN result.cluster_info
       THEN uncaught("KeyError") /\ UNCHANGED <<calls, remote>>
       ELSE \E ret \in Rets :
            LET args == [ClusterIdentifier |-> opts.cluster_identifier]
                        @@ modify_args(result.stage, result.cluster_info, opts)
            IN  /\ calls' = Append(calls, Call("modify_cluster", "update", args, ret))
                /\ IF ret = "ok"
                   THEN /\ remote' = Updated(remote, args, opts.cluster_identifier,
                                             "ClusterIdentifier")
                        /\ pc' = "modify_wait"
                        /\ UNCHANGED <<outcome, exit_args>>
                   ELSE fail_json /\ UNCHANGED remote
    /\ UNCHANGED <<mod, fixture, check_mode, botocore_ok, opts, deleting, status, found, result, handlers,
                   run, history>>

\* modify_redshift_cluster with the waiter outside the try: its exception is
\* dropped and the next request is issued
modify_redshift_cluster_wait_dropped ==
    /\ mod = "redshift" /\ pc = "modify_wait"
    /\ \E ret \in Rets :
        /\ calls' = Append(calls, Call("wait_cluster_available", "wait",
                                       [ClusterIdentifier |-> opts.cluster_identifier], ret))
        /\ IF result.stage < 4
           THEN pc' = "modify" /\ result' = [result EXCEPT !.stage = @ + 1]
           ELSE pc' = "modify_facts" /\ UNCHANGED result
        /\ UNCHANGED <<outcome, exit_args>>
    /\ UNCHANGED <<mod, fixture, check_mode, botocore_ok, opts, remote, deleting, status, found, handlers,
                   run, history>>

modify_redshift_cluster_wait ==
    /\ mod = "redshift" /\ pc = "modify_wait"
    /\ \E ret \in Rets :
        /\ calls' = Append(calls, Call("wait_cluster_available", "wait",
                                       [ClusterIdentifier |-> opts.cluster_identifier], ret))
        /\ IF ret = "ok"
           THEN /\ IF result.stage < 4
                   THEN pc' = "modify" /\ result' = [result EXCEPT !.stage = @ + 1]
                   ELSE pc' = "modify_facts" /\ UNCHANGED result
                /\ UNCHANGED <<outcome, exit_args>>
           ELSE fail_json /\ UNCHANGED result
    /\ UNCHANGED <<mod, fixture, check_mode, botocore_ok, opts, remote, deleting, status, found, handlers,
                   run, history>>

\* modify_redshift_cluster, the describe call for the facts, and main()'s exit_json
modify_redshift_cluster_facts ==
    /\ mod = "redshift" /\ pc = "modify_facts"
    /\ \E ret \in Rets :
        /\ calls' = Append(calls, Call("describe_clusters", "read",
                                       [ClusterIdentifier |-> opts.cluster_identifier], ret))
        /\ IF ret = "ok"
           THEN exit_json([changed |-> TRUE, task_status |-> "modify_facts"])
           ELSE fail_json
    /\ UNCHANGED <<mod, fixture, check_mode, botocore_ok, opts, remote, deleting, status, found, result,
                   handlers, run, history>>

\* delete_redshift_cluster without its waiter
delete_redshift_cluster_unwaited ==
    /\ mod = "redshift" /\ pc = "branch"
    /\ opts.state = "absent" /\ status = "found"
    /\ handlers' = Append(handlers, "delete")
    /\ \E ret \in Rets :
        /\ calls' = Append(calls, Call("delete_cluster", "delete",
                                       redshift_delete_args(redshift_params(opts)), ret))
        /\ IF ret = "ok"
           THEN /\ deleting' = deleting \cup {opts.cluster_identifier}
                /\ exit_json([changed |-> TRUE, task_status |-> "terminate_result"])
           ELSE fail_json /\ UNCHANGED deleting
    /\ UNCHANGED <<mod, fixture, check_mode, botocore_ok, opts, remote, status, found, result, run, history>>

delete_redshift_cluster ==
    /\ mod = "redshift" /\ pc = "branch"
    /\ opts.state = "absent" /\ status = "found"
    /\ handlers' = Append(handlers, "delete")
    /\ \E ret \in Rets :
        /\ calls' = Append(calls, Call("delete_cluster", "delete",
                                       redshift_delete_args(redshift_params(opts)), ret))
        /\ IF ret = "ok"
           THEN /\ deleting' = deleting \cup {opts.cluster_identifier}
                /\ pc' = "delete_wait"
                /\ UNCHANGED <<outcome, exit_args>>
           ELSE fail_json /\ UNCHANGED deleting
    /\ UNCHANGED <<mod, fixture, check_mode, botocore_ok, opts, remote, status, found, result, run, history>>

\* delete_redshift_cluster, the waiter, and main()'s exit_json
delete_redshift_cluster_wait ==
    /\ mod = "redshift" /\ pc = "delete_wait"
    /\ \E ret \in Rets :
        /\ calls' = Append(calls, Call("wait_cluster_deleted", "wait",
                                       [ClusterIdentifier |-> opts.cluster_identifier], ret))
        /\ IF ret = "ok"
           THEN /\ remote' = Settled(remote, deleting, IdKey(mod))
                /\ deleting' = {}
                /\ exit_json([changed |-> TRUE, task_status |-> "terminate_result"])
           ELSE fail_json /\ UNCHANGED <<remote, deleting>>
    /\ UNCHANGED <<mod, fixture, check_mode, botocore_ok, opts, status, found, result, handlers, run, history>>

\* main(): state absent and the cluster missing
redshift_main_missing ==
    /\ mod = "redshift" /\ pc = "branch"
    /\ opts.state = "absent" /\ status = "missing"
    /\ exit_json([changed |-> FALSE, task_status |-> "does not exist/already deleted"])
    /\ UNCHANGED <<mod, fixture, check_mode, botocore_ok, opts, remote, deleting, status, found, result,
                   calls, handlers, run, history>>

-----------------------------------------------------------------------------
(* aws_storage_gateway *)

ResourceTypes == {"gateway", "nfs_file_share", "cached_iscsi_volume",
                  "stored_iscsi_volume", "tape", "tape_group"}

sgw_options ==
    [state : {"present", "absent"},
     resource_type : ResourceTypes,
     gateway_arn : {"arn:gw"},
     tape_barcode_prefix : {"TP"},
     number_of_tapes : {1}]

\* a virtual tape as list_tapes returns it
sgw_tape(i, prefix) == [TapeARN |-> Arn(i), TapeBarcode |-> prefix \o ToString(i)]

sgw_remotes ==
    {[i \in DOMAIN sh |-> sgw_tape(i, sh[i])] : sh \in SeqsUpTo({"TP", "XX"}, MaxRemote)}

\* update_resource, the first test of its nfs_file_share branch, has no ':' after
\* the condition: the file is no Python program, so the interpreter raises
\* SyntaxError when the module is started and no statement of main() runs
aws_storage_gateway_load ==
    /\ mod = "sgw" /\ pc = "start"
    /\ uncaught("SyntaxError")
    /\ UNCHANGED <<mod, fixture, check_mode, botocore_ok, opts, remote, deleting, status, found, result,
                   calls, handlers, run, history>>

-----------------------------------------------------------------------------
(* snowball_address *)

snowball_address_options ==
    [name : {DeclaredName},
     company : {None, "acme"},
     street1 : {"1 Main St", "2 Side St"},
     city : {"Rhinelander"},
     state_or_province : {"WI"},
     country : {"US"},
     postal_code : {"54501"},
     phone_number : {"555-0100"},
     restricted : {FALSE}]

\* main() of snowball_address and of snowball_job: the address dict
address_params(o) ==
    [Name |-> o.name,
     Street1 |-> o.street1,
     City |-> o.city,
     StateOrProvince |-> o.state_or_province,
     Country |-> o.country,
     PostalCode |-> o.postal_code,
     PhoneNumber |-> o.phone_number,
     IsRestricted |-> o.restricted]
    @@ (IF o.company # None THEN Dict1("Company", o.company) ELSE NoDict)

\* an address as describe_addresses returns it: the submitted dict and its id
address_entry(id, params) == Dict1("AddressId", id) @@ params

snowball_address_remotes ==
    {[i \in DOMAIN sh |-> address_entry("ADID" \o ToString(i), address_params(sh[i]))] :
        sh \in SeqsUpTo(snowball_address_options, MaxRemote)}

\* del i['AddressId'] left out: the entry is compared with its AddressId
Without_kept(d, k) == d

\* i after del i['AddressId']
Without(d, k) == [x \in DOMAIN d \ {k} |-> d[x]]

\* the loop of address_exists: the first listed address equal to the request
address_exists_hits(listing, params) ==
    {i \in DOMAIN listing : Without(listing[i], "AddressId") = params}

CheckModeAddressId == "C3P01234ab12-3eec-4eb3-9be6-9374c10eb51b"

\* address_exists catches ClientError and IndexError, no BotoCoreError
address_exists ==
    /\ mod = "snow_addr" /\ pc = "start"
    /\ handlers' = Append(handlers, "exists")
    /\ LET r0 == IF check_mode THEN Assign(result, "address_id", CheckModeAddressId)
                 ELSE result
           hits == address_exists_hits(remote, address_params(opts))
       IN  \E ret \in Rets :
           /\ calls' = Append(calls, Call("describe_addresses", "read", NoDict, ret))
           /\ IF ret = "ok" /\ hits # {}
              THEN /\ result' = Assign(r0, "address_id",
                                       remote[CHOOSE i \in hits : \A j \in hits : i <= j].AddressId)
                   /\ status' = TRUE
                   /\ found' = "found"
                   /\ pc' = "branch"
                   /\ UNCHANGED <<outcome, exit_args>>
              ELSE IF ret \in {"ok", "ClientError"}
              THEN /\ result' = r0
                   /\ status' = FALSE
                   /\ found' = "absent"
                   /\ pc' = "branch"
                   /\ UNCHANGED <<outcome, exit_args>>
              ELSE uncaught(ret) /\ UNCHANGED <<result, status, found>>
    /\ UNCHANGED <<mod, fixture, check_mode, botocore_ok, opts, remote, deleting, run, history>>

create_address ==
    /\ mod = "snow_addr" /\ pc = "branch"
    /\ ~status
    /\ handlers' = Append(handlers, "create")
    /\ IF check_mode
       THEN exit_json([changed |-> TRUE, results |-> result])
            /\ UNCHANGED <<calls, remote, result>>
       ELSE \E ret \in Rets :
            /\ calls' = Append(calls, Call("create_address", "create",
                                           [Address |-> address_params(opts)], ret))
            /\ IF ret = "ok"
               THEN /\ remote' = Append(remote, address_entry("ADID" \o NewArn(run),
                                                              address_params(opts)))
                    /\ result' = Assign(Assign(result, "address_id", "ADID" \o NewArn(run)),
                                        "changed", TRUE)
                    /\ pc' = "exit"
                    /\ UNCHANGED <<outcome, exit_args>>
               ELSE fail_json /\ UNCHANGED <<remote, result>>
    /\ UNCHANGED <<mod, fixture, check_mode, botocore_ok, opts, deleting, status, found, run, history>>

\* main(), last line; reached directly when the address was found
snowball_address_main_exit ==
    /\ mod = "snow_addr"
    /\ \/ pc = "exit"
       \/ pc = "branch" /\ status
    /\ exit_json([changed |-> result.changed, results |-> result])
    /\ UNCHANGED <<mod, fixture, check_mode, botocore_ok, opts, remote, deleting, status, found, result,
                   calls, handlers, run, history>>

-----------------------------------------------------------------------------
(* snowball_job *)

\* the argument_spec of snowball_job is that of snowball_address: it declares
\* neither state nor description, so module.params.get gives None for both
snowball_job_argument_spec ==
    {"name", "company", "street1", "street2", "street3", "city", "state_or_province",
     "country", "postal_code", "phone_number", "restricted"}

\* the arguments of a task: the declared ones, with or without the state and
\* the description the module's documentation requires
snowball_job_options ==
    {a @@ s @@ d :
        a \in snowball_address_options,
        s \in {NoDict} \cup {Dict1("state", v) : v \in {"present", "absent"}},
        d \in {NoDict, Dict1("description", "weekly import")}}

\* AnsibleAWSModule(argument_spec=...): an argument the spec does not declare
\* fails the module ("Unsupported parameters") before main() does anything
snowball_job_main ==
    /\ mod = "snow_job" /\ pc = "start"
    /\ IF DOMAIN opts \subseteq snowball_job_argument_spec
       THEN pc' = "exists" /\ UNCHANGED <<outcome, exit_args>>
       ELSE fail_json
    /\ UNCHANGED <<mod, fixture, check_mode, botocore_ok, opts, remote, deleting, status, found, result,
                   calls, handlers, run, history>>

ParamsGet(o, name) == IF name \in DOMAIN o THEN o[name] ELSE None

\* a job as list_jobs returns it; Description is left out when the job has none
job_entry(id, description) ==
    [JobId |-> id, JobState |-> "New"]
    @@ (IF description # None THEN Dict1("Description", description) ELSE NoDict)

snowball_job_remotes ==
    {[i \in DOMAIN sh |-> job_entry("JID" \o ToString(i), sh[i])] :
        sh \in SeqsUpTo({None, "weekly import"}, MaxRemote)}

CheckModeJobId == "JID123e4567-e89b-12d3-a456-426655440000"

\* the loop of job_exists over the listing, up to its first return or error:
\* "KeyError", <<"found", job id>> or <<"none">>
RECURSIVE job_exists_scan(_, _, _)
job_exists_scan(listing, description, i) ==
    IF i > Len(listing) THEN <<"none">>
    ELSE IF "Description" \notin DOMAIN listing[i] THEN <<"KeyError">>
    ELSE IF listing[i].Description = description THEN <<"found", listing[i].JobId>>
    ELSE job_exists_scan(listing, description, i + 1)

\* job_exists catches ClientError and IndexError, no BotoCoreError and no KeyError
job_exists ==
    /\ mod = "snow_job" /\ pc = "exists"
    /\ handlers' = Append(handlers, "exists")
    /\ LET r0 == IF check_mode THEN Assign(result, "job_id", CheckModeJobId) ELSE result
           scan == job_exists_scan(remote, ParamsGet(opts, "description"), 1)
       IN  \E ret \in Rets :
           /\ calls' = Append(calls, Call("list_jobs", "read", NoDict, ret))
           /\ IF ret = "ok" /\ scan[1] = "found"
              THEN /\ result' = Assign(r0, "job_id", scan[2])
                   /\ status' = TRUE
                   /\ found' = "found"
                   /\ pc' = "branch"
                   /\ UNCHANGED <<outcome, exit_args>>
              ELSE IF ret = "ok" /\ scan[1] = "KeyError"
              THEN uncaught("KeyError") /\ result' = r0 /\ UNCHANGED <<status, found>>
              ELSE IF ret \in {"ok", "ClientError"}
              THEN /\ result' = r0
                   /\ status' = FALSE
                   /\ found' = "absent"
                   /\ pc' = "branch"
                   /\ UNCHANGED <<outcome, exit_args>>
              ELSE uncaught(ret) /\ result' = r0 /\ UNCHANGED <<status, found>>
    /\ UNCHANGED <<mod, fixture, check_mode, botocore_ok, opts, remote, deleting, run, history>>

\* main() after job_exists: desired_state is None, so neither the present nor
\* the absent branch is taken
snowball_job_main_exit ==
    /\ mod = "snow_job" /\ pc = "branch"
    /\ ParamsGet(opts, "state") \notin {"present", "absent"}
    /\ exit_json([changed |-> result.changed, results |-> result])
    /\ UNCHANGED <<mod, fixture, check_mode, botocore_ok, opts, remote, deleting, status, found, result,
                   calls, handlers, run, history>>

-----------------------------------------------------------------------------
(* What an invocation starts from *)

Modules == {"pca", "neptune", "rekog", "redshift", "sgw", "snow_addr", "snow_job"}

Options(m) ==
    CASE m = "pca" -> pca_options
      [] m = "neptune" -> neptune_options
      [] m = "rekog" -> rekog_options
      [] m = "redshift" -> redshift_options
      [] m = "sgw" -> sgw_options
      [] m = "snow_addr" -> snowball_address_options
      [] m = "snow_job" -> snowball_job_options

Remotes(m) ==
    CASE m = "pca" -> pca_remotes
      [] m = "neptune" -> neptune_remotes
      [] m = "rekog" -> rekog_remotes
      [] m = "redshift" -> redshift_remotes
      [] m = "sgw" -> sgw_remotes
      [] m = "snow_addr" -> snowball_address_remotes
      [] m = "snow_job" -> snowball_job_remotes

\* main(): the result dict before the existence check
InitResult(m) ==
    CASE m = "pca" -> [changed |-> FALSE, pca_arn |-> ""]
      [] m = "neptune" -> [changed |-> FALSE, db_instance_arn |-> ""]
      [] m = "rekog" -> [changed |-> FALSE, status |-> ""]
      [] m = "redshift" -> NoDict
      [] m \in {"sgw", "snow_addr", "snow_job"} -> [changed |-> FALSE]

-----------------------------------------------------------------------------
(* Successive invocations *)

\* after a successful invocation the orchestrator runs the same task again;
\* deletions the provider accepted have completed by then
NextInvocation ==
    /\ pc = "done" /\ outcome = "exit" /\ run < MaxRuns
    /\ history' = Append(history, [outcome |-> outcome, exit_args |-> exit_args,
                                   mutating |-> Len(CallsOfKind(Mutating)),
                                   first_ret |-> IF calls = <<>> THEN "none"
                                                 ELSE calls[1].ret])
    /\ run' = run + 1
    /\ remote' = Settled(remote, deleting, IdKey(mod))
    /\ fixture' = remote'
    /\ deleting' = {}
    /\ pc' = "start"
    /\ status' = NoDict
    /\ found' = "unchecked"
    /\ result' = InitResult(mod)
    /\ calls' = <<>>
    /\ handlers' = <<>>
    /\ outcome' = "none"
    /\ exit_args' = NoDict
    /\ UNCHANGED <<mod, check_mode, botocore_ok, opts>>

Init ==
    /\ mod \in Modules
    /\ check_mode \in BOOLEAN
    /\ botocore_ok \in (IF mod = "pca" THEN BOOLEAN ELSE {TRUE})
    /\ opts \in Options(mod)
    /\ remote \in Remotes(mod)
    /\ fixture = remote
    /\ deleting = {}
    /\ pc = "start"
    /\ status = NoDict
    /\ found = "unchecked"
    /\ result = InitResult(mod)
    /\ calls = <<>>
    /\ handlers = <<>>
    /\ outcome = "none"
    /\ exit_args = NoDict
    /\ run = 1
    /\ history = <<>>

Next ==
    \/ pca_main \/ pca_exists \/ pca_create \/ pca_create_wait
    \/ pca_update \/ pca_update_wait \/ pca_delete \/ pca_delete_wait \/ pca_main_exit
    \/ neptune_main \/ instance_exists \/ create_instance \/ create_instance_wait
    \/ update_instance \/ update_instance_wait \/ delete_instance \/ delete_instance_wait
    \/ neptune_main_exit
    \/ rekog_main \/ processor_exists \/ processor_exists_describe \/ create_processor
    \/ update_processor \/ delete_processor \/ rekog_main_exit
    \/ get_redshift_cluster \/ create_redshift_cluster \/ create_redshift_cluster_wait
    \/ create_redshift_cluster_facts \/ modify_redshift_cluster
    \/ modify_redshift_cluster_request \/ modify_redshift_cluster_wait
    \/ modify_redshift_cluster_facts \/ delete_redshift_cluster
    \/ delete_redshift_cluster_wait \/ redshift_main_missing
    \/ aws_storage_gateway_load
    \/ address_exists \/ create_address \/ snowball_address_main_exit
    \/ snowball_job_main \/ job_exists \/ snowball_job_main_exit
    \/ NextInvocation

Spec == Init /\ [][Next]_vars

-----------------------------------------------------------------------------
(* Properties *)

Lifecycle == {"create", "update", "delete"}
Diffing == {"pca", "neptune", "rekog"}
StateModules == {"pca", "neptune", "rekog", "redshift", "sgw"}

\* the request dict main() built and the dict the existence check stored
Request ==
    CASE mod = "pca" -> pca_params(opts)
      [] mod = "neptune" -> neptune_params(opts)
      [] mod = "rekog" -> rekog_params(opts)

Current == IF mod = "rekog" THEN result.processor_config ELSE status.current_config

SharedKeysEqual ==
    \A k \in DOMAIN Request \cap DOMAIN Current : Request[k] = Current[k]

\* every provider call of the invocation returned (no provider exception)
AllReturned == \A i \in DOMAIN calls : calls[i].ret \notin Raised

\* C1: aws_acm_pca, aws_neptune_instance and rekognition_stream_processor,
\* outside check mode, state=present: when the existence check found the
\* resource and every key shared by the request dict and the provider's dict has
\* equal values, the invocation issues no create, update or delete call, does
\* not fail, and its exit reports changed=False.
C1_PresentUnchangedIsNoop ==
    (/\ mod \in Diffing /\ ~check_mode /\ opts.state = "present"
     /\ found = "found" /\ SharedKeysEqual)
    => /\ Len(CallsOfKind(Lifecycle)) = 0
       /\ outcome \in {"none", "exit"}
       /\ outcome = "exit" => exit_args.changed = FALSE

C1_Witness ==
    /\ mod \in Diffing /\ ~check_mode /\ opts.state = "present"
    /\ found = "found" /\ SharedKeysEqual
    /\ outcome = "exit" /\ exit_args.changed = FALSE
    /\ Len(calls) >= 1

\* the cluster the provider held at the start has the declared configuration
RedshiftAsDeclared ==
    \E i \in DOMAIN fixture :
        /\ fixture[i].ClusterIdentifier = opts.cluster_identifier
        /\ fixture[i].NodeType = opts.node_type
        /\ fixture[i].PubliclyAccessible = opts.publicly_accessible
        /\ fixture[i].EnhancedVpcRouting = opts.enhanced_vpc_routing
        /\ IF opts.cluster_type = "single-node"
           THEN fixture[i].NumberOfNodes = 1
           ELSE fixture[i].NumberOfNodes = opts.number_of_nodes
        /\ IF opts.elastic_ip = None
           THEN "ElasticIp" \notin DOMAIN fixture[i]
           ELSE "ElasticIp" \in DOMAIN fixture[i] /\ fixture[i].ElasticIp = opts.elastic_ip

\* C2: redshift_cluster, state=present: when the cluster exists and its
\* configuration equals the declared one, the invocation issues no
\* modify_cluster call and exits with changed=False, task status 'unmodified'.
C2_RedshiftUnchangedIsNoop ==
    (/\ mod = "redshift" /\ opts.state = "present"
     /\ found = "found" /\ RedshiftAsDeclared)
    => /\ Len(CallsOfApi("modify_cluster")) = 0
       /\ outcome = "exit" =>
             exit_args.changed = FALSE /\ exit_args.task_status = "unmodified"

\* the provider holds a tape whose barcode carries the declared prefix
TapeGroupHeld(rem) ==
    \E i \in DOMAIN rem :
        rem[i].TapeBarcode \in
            {opts.tape_barcode_prefix \o ToString(j) : j \in 1..(MaxRemote + MaxRuns)}

\* C3: aws_storage_gateway, resource_type tape_group: an invocation with
\* state=present that follows a successful one with the same parameters issues
\* no create_tapes call and exits with changed=False; an invocation with
\* state=absent while tapes of the group exist issues a delete call.
C3_TapeGroupIdempotent ==
    (mod = "sgw" /\ opts.resource_type = "tape_group" /\ pc = "done")
    => /\ (opts.state = "present" /\ run > 1)
             => /\ Len(CallsOfApi("create_tapes")) = 0
                /\ outcome = "exit" /\ exit_args.changed = FALSE
       /\ (opts.state = "absent" /\ TapeGroupHeld(fixture))
             => Len(CallsOfKind({"delete"})) > 0

\* the provider held the declared resource when the invocation started
Held ==
    CASE mod = "pca" ->
            \E i \in DOMAIN fixture :
                fixture[i].CertificateAuthorityConfiguration.Subject.CommonName
                    = opts.common_name
      [] mod = "neptune" ->
            \E i \in DOMAIN fixture : fixture[i].DBInstanceIdentifier = opts.name
      [] mod = "rekog" ->
            \E i \in DOMAIN fixture : fixture[i].Name = opts.name
      [] mod = "redshift" ->
            \E i \in DOMAIN fixture :
                fixture[i].ClusterIdentifier = opts.cluster_identifier
      [] mod = "sgw" ->
            opts.resource_type \in {"tape", "tape_group"} /\ TapeGroupHeld(fixture)

\* C4: the five modules with a state option, outside check mode, state=absent:
\* when the provider does not hold the resource and no provider call raises,
\* the finished invocation has issued no create, update or delete call and has
\* exited successfully with changed=False.  (aws_acm_pca: with the botocore
\* version it requires.)
C4_AbsentMissingIsNoop ==
    (/\ mod \in StateModules /\ ~check_mode /\ botocore_ok
     /\ opts.state = "absent" /\ ~Held /\ AllReturned /\ pc = "done")
    => /\ Len(CallsOfKind(Lifecycle)) = 0
       /\ outcome = "exit" /\ exit_args.changed = FALSE

Creating == {"pca", "neptune", "redshift", "rekog"}

\* every value of the create request is the declared option's value
BuiltFromDeclared(args) ==
    CASE mod = "pca" ->
            /\ args.CertificateAuthorityConfiguration.Subject.CommonName = opts.common_name
            /\ args.CertificateAuthorityConfiguration.KeyAlgorithm = opts.key_algorithm
            /\ args.CertificateAuthorityConfiguration.SigningAlgorithm
                   = opts.signing_algorithm
            /\ "RevocationConfiguration" \in DOMAIN args =>
                   args.RevocationConfiguration.CrlConfiguration.Enabled
                       = opts.revocation_enabled
      [] mod = "neptune" ->
            /\ args.DBInstanceIdentifier = opts.name
            /\ args.DBInstanceClass = opts.instance_class
            /\ args.Engine = opts.db_engine
            /\ "MultiAZ" \in DOMAIN args => args.MultiAZ = opts.multi_az
      [] mod = "rekog" ->
            /\ args.Name = opts.name
            /\ args.Input.KinesisVideoStream.Arn = opts.input_arn
            /\ args.Output.KinesisDataStream.Arn = opts.output_arn
            /\ args.Settings.FaceSearch.CollectionId = opts.collection_id
            /\ args.Settings.FaceSearch.FaceMatchThreshold = opts.match_threshold
            /\ args.RoleArn = opts.iam_role_arn
      [] mod = "redshift" ->
            /\ args.ClusterIdentifier = opts.cluster_identifier
            /\ args.NodeType = opts.node_type
            /\ args.ClusterType = opts.cluster_type
            /\ args.PubliclyAccessible = opts.publicly_accessible
            /\ args.EnhancedVpcRouting = opts.enhanced_vpc_routing
            /\ "NumberOfNodes" \in DOMAIN args => args.NumberOfNodes = opts.number_of_nodes
            /\ "ElasticIp" \in DOMAIN args => args.ElasticIp = opts.elastic_ip

\* the finished invocation issued exactly one create call, built from the
\* declared options, and no update or delete call
OneDeclaredCreate ==
    LET creates == CallsOfKind({"create"})
    IN  /\ Len(creates) = 1
        /\ BuiltFromDeclared(creates[1].args)
        /\ Len(CallsOfKind({"update", "delete"})) = 0

CreateAndWaiterReturned ==
    \A i \in DOMAIN calls : calls[i].kind \in {"create", "wait"} => calls[i].ret = "ok"

\* C5 as stated: aws_acm_pca, aws_neptune_instance, redshift_cluster and
\* rekognition_stream_processor, outside check mode, state=present with the
\* resource not found: exactly one create call built from the declared
\* parameters, no update or delete call, and an exit with changed=True when
\* the create call and its waiter (if any) succeed.
C5_CreateWhenMissing ==
    (/\ mod \in Creating /\ ~check_mode /\ opts.state = "present"
     /\ found = "absent" /\ pc = "done")
    => /\ OneDeclaredCreate
       /\ CreateAndWaiterReturned => outcome = "exit" /\ exit_args.changed = TRUE

\* C5, amended: as above, with the exit with changed=True when the create
\* call, its waiter and every call after them (redshift_cluster: the
\* describe_clusters call that fetches the facts) succeed; a create call, a
\* waiter or that describe call raising ends the invocation in failure.
C5_CreateWhenMissingAllReturned ==
    (/\ mod \in Creating /\ ~check_mode /\ opts.state = "present"
     /\ found = "absent" /\ pc = "done")
    => /\ OneDeclaredCreate
       /\ AllReturned => outcome = "exit" /\ exit_args.changed = TRUE
       /\ ~AllReturned => outcome = "fail"

C5_Witness ==
    /\ mod = "redshift" /\ ~check_mode /\ opts.state = "present"
    /\ found = "absent" /\ pc = "done"
    /\ CreateAndWaiterReturned /\ Len(calls) = 4 /\ Last(calls).ret \in Raised
    /\ outcome = "fail"

Waiting == {"pca", "neptune", "redshift"}

\* the identifier of the resource the existence check has to find
FoundId ==
    CASE mod = "pca" ->
            fixture[Max({i \in DOMAIN fixture :
                            fixture[i].CertificateAuthorityConfiguration.Subject.CommonName
                                = opts.common_name})].Arn
      [] mod = "neptune" -> opts.name
      [] mod = "redshift" -> opts.cluster_identifier

\* the identifier a delete request (or its waiter's request) names
NamedId(args) ==
    CASE mod = "pca" -> args.CertificateAuthorityArn
      [] mod = "neptune" -> args.DBInstanceIdentifier
      [] mod = "redshift" -> args.ClusterIdentifier

DeletedWaiters == {"wait_pca_deleted", "wait_db_instance_deleted", "wait_cluster_deleted"}

\* C6: aws_acm_pca, aws_neptune_instance and redshift_cluster, outside check
\* mode, state=absent with the resource found: no create or update call; the
\* finished invocation issued exactly one delete call, naming the found
\* resource; it exits, with changed=True, only after the 'deleted' waiter that
\* follows the delete call returned; and after that exit the provider no
\* longer holds the resource.
C6_DeleteWhenFound ==
    (/\ mod \in Waiting /\ ~check_mode /\ opts.state = "absent" /\ found = "found")
    => LET deletes == CallsOfKind({"delete"})
       IN  /\ Len(deletes) <= 1
           /\ Len(CallsOfKind({"create", "update"})) = 0
           /\ pc = "done" => Len(deletes) = 1 /\ NamedId(deletes[1].args) = FoundId
           /\ outcome = "exit" =>
                 /\ exit_args.changed = TRUE
                 /\ Len(calls) >= 2
                 /\ calls[Len(calls) - 1].kind = "delete"
                 /\ calls[Len(calls) - 1].ret = "ok"
                 /\ Last(calls).api \in DeletedWaiters
                 /\ NamedId(Last(calls).args) = FoundId
                 /\ Last(calls).ret = "ok"
                 /\ \A i \in DOMAIN remote : remote[i][IdKey(mod)] # FoundId

C6_Witness ==
    /\ mod \in Waiting /\ ~check_mode /\ opts.state = "absent" /\ found = "found"
    /\ outcome = "exit" /\ exit_args.changed = TRUE
    /\ Len(fixture) = MaxRemote /\ Len(remote) = MaxRemote - 1

ExistenceChecks == Len(SelectSeq(handlers, LAMBDA h : h = "exists"))

EachLifecycleCallWaited ==
    \A i \in DOMAIN calls :
        calls[i].kind \in Lifecycle =>
            /\ calls[i].ret = "ok"
            /\ i < Len(calls)
            /\ calls[i + 1].kind = "wait"
            /\ calls[i + 1].ret = "ok"

\* a waiter that raised is the last call of an invocation that failed
WaiterErrorFails ==
    \A i \in DOMAIN calls :
        (calls[i].kind = "wait" /\ calls[i].ret \in Raised)
            => outcome = "fail" /\ i = Len(calls)

Checking == {"pca", "neptune", "rekog", "redshift"}

\* a call of the existence check raised a provider exception: the first call
\* of the invocation or, in rekognition_stream_processor, the describe call
\* that follows the listing
ExistenceCheckRaised ==
    /\ calls # <<>>
    /\ \/ calls[1].ret \in Raised
       \/ /\ mod = "rekog" /\ Len(calls) >= 2
          /\ calls[2].api = "describe_stream_processor" /\ calls[2].ret \in Raised

\* C10: aws_acm_pca, aws_neptune_instance, rekognition_stream_processor and
\* redshift_cluster: a provider exception raised by a call of the existence
\* check ends the invocation in failure with no create, update or delete call
\* issued; the provider's not-found fault (DBInstanceNotFound,
\* ClusterNotFoundFault) makes the check conclude "absent" and is no failure.
C10_ExistenceCheckErrors ==
    mod \in Checking =>
        /\ ExistenceCheckRaised
              => /\ pc = "done" /\ outcome = "fail"
                 /\ Len(CallsOfKind(Lifecycle)) = 0
        /\ (calls # <<>> /\ calls[1].ret = "not_found")
              => /\ found = "absent"
                 /\ Len(calls) = 1 => outcome \in {"none", "exit"}

C10_Witness ==
    /\ mod \in {"neptune", "redshift"}
    /\ run = 2 /\ history[1].first_ret = "not_found" /\ history[1].outcome = "exit"
    /\ ExistenceCheckRaised
    /\ outcome = "fail"

\* C11: aws_storage_gateway and snowball_address, outside check mode: when a
\* call of the existence check raises a provider exception, the resource
\* counts as absent: snowball_address, and aws_storage_gateway with
\* state=present, go on to issue the create call; aws_storage_gateway with
\* state=absent issues no delete call and exits with changed=False.
C11_CheckErrorMeansAbsent ==
    (/\ mod \in {"sgw", "snow_addr"} /\ ~check_mode
     /\ calls # <<>> /\ calls[1].ret \in Raised /\ pc = "done")
    => /\ outcome # "crash"
       /\ (mod = "snow_addr" \/ opts.state = "present")
             => Len(CallsOfKind({"create"})) = 1
       /\ (mod = "sgw" /\ opts.state = "absent")
             => /\ Len(CallsOfKind({"delete"})) = 0
                /\ outcome = "exit" /\ exit_args.changed = FALSE

\* C12: in every module, a mutating call or a waiter that raised a provider
\* exception is the only such call of the invocation and its last provider
\* call (no retry, rollback or cleanup follows), and the invocation has ended
\* in failure.
C12_NoRetryAfterError ==
    \A i \in DOMAIN calls :
        (calls[i].kind \in Mutating \cup {"wait"} /\ calls[i].ret \in Raised)
            => /\ i = Len(calls)
               /\ pc = "done" /\ outcome = "fail"
               /\ \A j \in DOMAIN calls :
                     (calls[j].kind \in Mutating \cup {"wait"} /\ calls[j].ret \in Raised)
                         => j = i

\* a waiter raised after its create call took effect: the new resource stays
C12_Witness ==
    /\ calls # <<>> /\ Last(calls).kind = "wait" /\ Last(calls).ret \in Raised
    /\ Len(CallsOfKind({"create"})) = 1
    /\ Len(remote) = Len(fixture) + 1
    /\ outcome = "fail"


ArnModules == {"pca", "neptune"}
ArnKey == IF mod = "pca" THEN "pca_arn" ELSE "db_instance_arn"

\* the declared resource is among the provider's resources now
HeldNow ==
    IF mod = "pca"
    THEN \E i \in DOMAIN remote :
            remote[i].CertificateAuthorityConfiguration.Subject.CommonName = opts.common_name
    ELSE \E i \in DOMAIN remote : remote[i].DBInstanceIdentifier = opts.name

\* C13: every successful exit of aws_acm_pca carries changed and pca_arn, and
\* every successful exit of aws_neptune_instance carries changed and
\* db_instance_arn, check mode included; the ARN is the empty string exactly
\* when the declared resource is absent after the invocation.
C13_ArnAlwaysReturned ==
    (mod \in ArnModules /\ outcome = "exit")
        => /\ "changed" \in DOMAIN exit_args
           /\ exit_args.changed \in BOOLEAN
           /\ ArnKey \in DOMAIN exit_args
           /\ (exit_args[ArnKey] = "") <=> ~HeldNow


\* the listed jobs whose Description equals the declared description
MatchingJobs ==
    {fixture[i].JobId : i \in {j \in DOMAIN fixture :
        /\ "Description" \in DOMAIN fixture[j]
        /\ fixture[j].Description = opts.description}}

\* C14: snowball_job, outside check mode, with state and description declared
\* and every provider call returning: with state=absent and a listed job of the
\* declared description, cancel_job is issued with that job's JobId and the
\* exit reports changed=True; with state=present, create_job is issued when no
\* such job is listed and update_job with the matching JobId when one is.
C14_JobLifecycle ==
    (/\ mod = "snow_job" /\ ~check_mode /\ pc = "done" /\ AllReturned
     /\ {"state", "description"} \subseteq DOMAIN opts)
    => /\ (opts.state = "absent" /\ MatchingJobs # {})
            => /\ \E i \in DOMAIN calls :
                    /\ calls[i].api = "cancel_job"
                    /\ calls[i].args.JobId \in MatchingJobs
               /\ outcome = "exit" /\ exit_args.changed = TRUE
       /\ (opts.state = "present" /\ MatchingJobs = {})
            => \E i \in DOMAIN calls : calls[i].api = "create_job"
       /\ (opts.state = "present" /\ MatchingJobs # {})
            => \E i \in DOMAIN calls :
                    /\ calls[i].api = "update_job"
                    /\ calls[i].args.JobId \in MatchingJobs


\* the listed addresses that are the declared address but for their AddressId
ListedAsDeclared ==
    {i \in DOMAIN fixture :
        /\ DOMAIN fixture[i] = DOMAIN address_params(opts) \cup {"AddressId"}
        /\ \A k \in DOMAIN address_params(opts) : fixture[i][k] = address_params(opts)[k]}

DescribeReturned == calls # <<>> /\ calls[1].ret = "ok"

\* no create call, changed=False and the address_id of a listed entry
AddressKept ==
    /\ Len(CallsOfKind({"create"})) = 0
    /\ outcome = "exit" /\ exit_args.changed = FALSE
    /\ exit_args.results.address_id \in {fixture[i].AddressId : i \in ListedAsDeclared}

\* one create call and, when it returned, changed=True and the new address's id
AddressCreated ==
    /\ Len(CallsOfKind({"create"})) = 1
    /\ CallsOfKind({"create"})[1].ret = "ok"
          => /\ outcome = "exit" /\ exit_args.changed = TRUE
             /\ Len(remote) = Len(fixture) + 1
             /\ exit_args.results.address_id = Last(remote).AddressId

\* two successive invocations whose listings returned created at most one address
AtMostOneCreated ==
    (run = 2 /\ history[1].first_ret = "ok")
        => history[1].mutating + Len(CallsOfKind({"create"})) <= 1

C16_FinalSnapshotByDefault ==
    (/\ mod = "redshift" /\ opts.state = "absent"
     /\ "skip_final_cluster_snapshot" \notin DOMAIN opts)
    => \A i \in DOMAIN calls :
          calls[i].api = "delete_cluster"
             => /\ calls[i].args.SkipFinalClusterSnapshot = FALSE
                /\ "FinalClusterSnapshotIdentifier" \in DOMAIN calls[i].args


\* C17: rekognition_stream_processor, outside check mode, state=present, every
\* provider call returning: when the processor was found with status STOPPED or
\* FAILED and some key shared with the request differs, the invocation issues
\* delete_stream_processor and then create_stream_processor with the request,
\* exits with changed=True, and a processor of the declared name is present.
C17_ProcessorReplaced ==
    (/\ mod = "rekog" /\ ~check_mode /\ opts.state = "present"
     /\ pc = "done" /\ AllReturned /\ found = "found"
     /\ ~SharedKeysEqual /\ Current.Status \in {"STOPPED", "FAILED"})
    => /\ \E i, j \in DOMAIN calls :
            /\ i < j
            /\ calls[i].api = "delete_stream_processor"
            /\ calls[j].api = "create_stream_processor"
            /\ calls[j].args = rekog_params(opts)
       /\ outcome = "exit" /\ exit_args.changed = TRUE
       /\ \E k \in DOMAIN remote :
            remote[k].Name = opts.name /\ remote[k].Name \notin deleting


ResizeFields == {"ClusterType", "NumberOfNodes", "NodeType"}
NetworkFields == {"PubliclyAccessible", "ElasticIp"}

\* the modification fields of a modify_cluster request
ModificationFields(args) == DOMAIN args \ {"ClusterIdentifier"}

\* C18: redshift_cluster: no modify_cluster request carries EnhancedVpcRouting
\* together with another modification field, none carries PubliclyAccessible
\* or ElasticIp together with another kind of modification, and none carries a
\* resize field (ClusterType, NumberOfNodes, NodeType) together with a
\* non-resize field.
C18_SeparateRequests ==
    mod = "redshift" =>
        \A i \in DOMAIN calls :
            calls[i].api = "modify_cluster" =>
                LET F == ModificationFields(calls[i].args)
                IN  /\ "EnhancedVpcRouting" \in F => F = {"EnhancedVpcRouting"}
                    /\ F \cap NetworkFields # {} => F \subseteq NetworkFields
                    /\ F \cap ResizeFields # {} => F \subseteq ResizeFields


\* the declared cluster is held with another public accessibility than declared
AccessibilityDiffers ==
    \E i \in DOMAIN fixture :
        /\ fixture[i].ClusterIdentifier = opts.cluster_identifier
        /\ fixture[i].PubliclyAccessible # opts.publicly_accessible

\* C19: redshift_cluster, state=present, on an existing cluster whose
\* PubliclyAccessible differs from the declared publicly_accessible: once the
\* network request of modify_redshift_cluster has been issued, some
\* modify_cluster request carries PubliclyAccessible with the declared value,
\* and no request carries a ClusterType other than the declared cluster_type.
C19_PublicAccessibilityApplied ==
    (/\ mod = "redshift" /\ opts.state = "present" /\ AccessibilityDiffers
     /\ Len(CallsOfApi("modify_cluster")) >= 2)
    => /\ \E i \in DOMAIN calls :
            /\ calls[i].api = "modify_cluster"
            /\ "PubliclyAccessible" \in DOMAIN calls[i].args
            /\ calls[i].args.PubliclyAccessible = opts.publicly_accessible
       /\ \A i \in DOMAIN calls :
            (calls[i].api = "modify_cluster" /\ "ClusterType" \in DOMAIN calls[i].args)
                => ToString(calls[i].args.ClusterType) = ToString(opts.cluster_type)


\* small dictionaries to compare: every map from some of two keys to two values
DiffDicts == UNION {[S -> {"x", "y"}] : S \in SUBSET {"k1", "k2"}}

\* the diff flags a change exactly when the two dicts differ at a key both have;
\* in particular never when they share no key
DiffIsOverSharedKeys ==
    \A p, c \in DiffDicts :
        any(param_changed(p, c)) <=> \E k \in DOMAIN p \cap DOMAIN c : p[k] # c[k]

\* the update handler ran, outside check mode
UpdateHandled ==
    /\ mod \in Diffing /\ ~check_mode /\ opts.state = "present"
    /\ \E i \in DOMAIN handlers : handlers[i] = "update"

\* update_pca / update_instance issued their update call, update_processor its
\* first call of the replacement
UpdateIssued == Len(CallsOfKind({"update", "delete"})) > 0

\* C20: update_pca, update_instance and update_processor compare the request
\* and the provider's dict over the keys both have: the update is issued iff
\* some shared key has unequal values, and the diff of two dicts without a
\* shared key flags nothing.
C20_UpdateIffSharedKeyDiffers ==
    /\ UpdateHandled => (UpdateIssued <=> ~SharedKeysEqual)
    /\ DiffIsOverSharedKeys

\* C20, amended: as above for update_pca and update_instance; update_processor
\* issues its update iff some shared key has unequal values and the
\* processor's Status is STOPPED or FAILED.
C20_UpdateIffSharedKeyDiffersAndReplaceable ==
    /\ UpdateHandled =>
          (UpdateIssued <=> /\ ~SharedKeysEqual
                            /\ mod = "rekog" => Current.Status \in {"STOPPED", "FAILED"})
    /\ DiffIsOverSharedKeys

\* an update issued for a differing shared key although each dict has keys the
\* other lacks
C20_Witness ==
    /\ UpdateHandled /\ UpdateIssued /\ ~SharedKeysEqual
    /\ DOMAIN Request \ DOMAIN Current # {}
    /\ DOMAIN Current \ DOMAIN Request # {}


\* the declared instance is held with multi-AZ on or monitoring on while the
\* task declares it off, and differs from the task in nothing else
OnlyFalsyDiffers ==
    \E i \in DOMAIN fixture :
        /\ fixture[i].DBInstanceIdentifier = opts.name
        /\ fixture[i].DBInstanceClass = opts.instance_class
        /\ fixture[i].Engine = opts.db_engine
        /\ opts.multi_az => fixture[i].MultiAZ
        /\ opts.monitoring_interval # 0
              => fixture[i].MonitoringInterval = opts.monitoring_interval
        /\ \/ fixture[i].MultiAZ /\ ~opts.multi_az
           \/ fixture[i].MonitoringInterval # 0 /\ opts.monitoring_interval = 0

\* no request of create_db_instance or modify_db_instance carries a false or zero value
NoFalsySent ==
    \A i \in DOMAIN calls :
        calls[i].kind \in {"create", "update"}
            => /\ "MultiAZ" \in DOMAIN calls[i].args => calls[i].args.MultiAZ
               /\ "MonitoringInterval" \in DOMAIN calls[i].args
                     => calls[i].args.MonitoringInterval # 0

CheckModeModules == {"pca", "neptune", "redshift", "rekog", "snow_addr", "snow_job"}

\* C22: in every module that declares supports_check_mode=True, an invocation
\* in check mode issues no create, update/modify, delete or cancel call,
\* whatever the declared state and the remote state.
C22_CheckModeIssuesNoMutation ==
    (mod \in CheckModeModules /\ check_mode)
        => Len(CallsOfKind(Mutating)) = 0 /\ remote = fixture /\ deleting = {}


\* the provider's dict of the declared resource at the start of the invocation
HeldEntry ==
    CASE mod = "pca" ->
            fixture[Max({i \in DOMAIN fixture :
                            fixture[i].CertificateAuthorityConfiguration.Subject.CommonName
                                = opts.common_name})]
      [] mod = "neptune" ->
            fixture[CHOOSE i \in DOMAIN fixture : fixture[i].DBInstanceIdentifier = opts.name]
      [] mod = "rekog" ->
            fixture[Max({i \in DOMAIN fixture : fixture[i].Name = opts.name})]

\* what an invocation outside check mode reports for this task and remote state:
\* a missing resource is created, a held one is updated when a shared key
\* differs (a stream processor: when it is stopped or failed as well), or deleted
RealRunChanged ==
    IF opts.state = "absent" THEN Held
    ELSE IF ~Held THEN TRUE
    ELSE /\ \E k \in DOMAIN Request \cap DOMAIN HeldEntry : Request[k] # HeldEntry[k]
         /\ mod = "rekog" => HeldEntry.Status \in {"STOPPED", "FAILED"}

\* C23: aws_acm_pca, aws_neptune_instance and rekognition_stream_processor,
\* every provider call returning: the changed value of a successful exit, in
\* check mode as outside it, is the value an invocation outside check mode
\* reports for the same task and remote state.
C23_CheckModePredictsRealRun ==
    (mod \in Diffing /\ outcome = "exit" /\ AllReturned)
        => exit_args.changed = RealRunChanged


\* the declared processor is held, and not stopped nor failed
HeldRunning ==
    /\ \E i \in DOMAIN fixture : fixture[i].Name = opts.name
    /\ \A i \in DOMAIN fixture :
          fixture[i].Name = opts.name => fixture[i].Status \notin {"STOPPED", "FAILED"}

\* C24: rekognition_stream_processor, state=present, every provider call
\* returning: when the processor exists with a Status other than STOPPED or
\* FAILED, the finished invocation has issued neither delete_stream_processor
\* nor create_stream_processor and has exited with changed=False, whether or
\* not a shared key differs.
C24_RunningProcessorUntouched ==
    (/\ mod = "rekog" /\ opts.state = "present" /\ HeldRunning
     /\ AllReturned /\ pc = "done")
    => /\ Len(CallsOfApi("delete_stream_processor")) = 0
       /\ Len(CallsOfApi("create_stream_processor")) = 0
       /\ outcome = "exit" /\ exit_args.changed = FALSE


\* update_processor ran outside check mode
ProcessorUpdateHandled ==
    /\ mod = "rekog" /\ ~check_mode /\ opts.state = "present"
    /\ \E i \in DOMAIN handlers : handlers[i] = "update"

DeleteReturned ==
    \E i \in DOMAIN calls : calls[i].api = "delete_stream_processor" /\ calls[i].ret = "ok"

CreateReturned ==
    \E i \in DOMAIN calls : calls[i].api = "create_stream_processor" /\ calls[i].ret = "ok"

ModifyPositions == SelectSeq([i \in DOMAIN calls |-> i],
                             LAMBDA i : calls[i].api = "modify_cluster")

\* the fields the k-th request of modify_redshift_cluster may carry (the
\* public-access change travels under the key ClusterType, see C19)
StageFields(k) ==
    CASE k = 1 -> {"EnhancedVpcRouting"}
      [] k = 2 -> NetworkFields \cup {"ClusterType"}
      [] k = 3 -> ResizeFields
      [] k = 4 -> {"MasterUserPassword", "AllowVersionUpgrade"}

\* the declared cluster as the provider holds it now
ClusterNow ==
    remote[CHOOSE i \in DOMAIN remote : remote[i].ClusterIdentifier = opts.cluster_identifier]

C27_ExactlyOneResult ==
    /\ pc = "done" => outcome \in {"exit", "fail"}
    /\ outcome # "none" => pc = "done"

=============================================================================
